---------------------------- MODULE Spec2Model ----------------------------
(***************************************************************************)
(* Model of the inventory MCP server: the /mcp session manager             *)
(* (app.all("/mcp"), transport.onclose, the SIGINT handler) and the token  *)
(* cache of getDynamicsAccessToken.                                        *)
(*                                                                         *)
(* Four specifications share one state:                                    *)
(*   Spec       the session/transport manager                              *)
(*   SpecAuth   the token cache and the two-hop authentication             *)
(*   SpecTools  query-inventory calls arriving on sessions of the one      *)
(*              shared McpServer                                           *)
(*   SpecHandlers  the tool handlers of every server of the repository:   *)
(*              either the /mcp server with the token cache runs, as in    *)
(*              SpecTools, or one of the servers without a cache           *)
(***************************************************************************)
EXTENDS Integers, Sequences, FiniteSets, TLC

(* ------------------------------ bounds -------------------------------- *)

\* transports ever constructed by initialize requests
MaxTransports == 2

\* invocations of getDynamicsAccessToken
MaxCalls == 2

\* advances of the clock
MaxTicks == 2

\* clock resolution: Date.now() / 1000 is a fraction of a second
TicksPerSecond == 2

\* query-inventory calls that arrive on sessions
MaxToolCalls == 1

\* close events one transport fires
MaxCloses == 2

(* ----------------------------- variables ------------------------------ *)

VARIABLES
    transports,   \* the session map: session id -> transport (0: no own property)
    tr,           \* every StreamableHTTPServerTransport ever constructed
    lastReq,      \* the request handled last and what the handler did with it
    sd,           \* the SIGINT handler: its position and its for-in enumeration
    cachedDynamicsToken,  \* the token cache (Null: no token)
    config,       \* the server configuration, fixed at start
    now,          \* Date.now(), in ticks
    ticks,        \* clock advances so far
    calls,        \* the invocations of getDynamicsAccessToken in flight
    lastCall,     \* the invocation that returned last, as it returned
    server,       \* the one McpServer: the transport it is attached to
    tools,        \* the query-inventory calls, by the invocation they make
    h             \* the tool call of a server without token cache

sessionVars == <<transports, tr, lastReq, sd, server>>
authVars == <<cachedDynamicsToken, config, now, ticks, calls, lastCall>>
vars == <<transports, tr, lastReq, sd,
          cachedDynamicsToken, config, now, ticks, calls, lastCall,
          server, tools, h>>
handlerVars == <<h>>

(* --------------------------- session manager -------------------------- *)

Transports == 1..MaxTransports

\* randomUUID() values: the n-th generated id is n
Uuids == 1..MaxTransports

Methods == {"POST", "GET", "DELETE"}

\* Values of the mcp-session-id header: absent (undefined or the empty
\* string, both falsy), a UUID-shaped id, or the name of a property every
\* object literal inherits from Object.prototype ("constructor", "toString",
\* "__proto__", ...).
NoSessionId == [kind |-> "absent", n |-> 0]
InheritedName == [kind |-> "inherited", n |-> 0]
SessionIdHeaders ==
    {NoSessionId, InheritedName} \cup {[kind |-> "uuid", n |-> i] : i \in Uuids}

\* What the JavaScript expression transports[sessionId] evaluates to.
\* transports is a plain object literal, so a name inherited from
\* Object.prototype yields a truthy value that is no transport.
Undefined == [kind |-> "undefined", t |-> 0]
ObjectPrototypeValue == [kind |-> "inherited", t |-> 0]
\* (mutant) the lookup ignores which session the id names and yields the
\* transport registered last
LookupLatest(map, sessionId) ==
    CASE sessionId.kind = "uuid" ->
            IF map[sessionId.n] # 0
            THEN [kind |-> "transport",
                  t |-> map[CHOOSE k \in 1..MaxTransports :
                              /\ map[k] # 0
                              /\ \A j \in 1..MaxTransports :
                                    map[j] # 0 => j <= k]]
            ELSE Undefined
      [] sessionId.kind = "inherited" -> ObjectPrototypeValue
      [] OTHER -> Undefined

Lookup(map, sessionId) ==
    CASE sessionId.kind = "uuid" ->
            IF map[sessionId.n] # 0
            THEN [kind |-> "transport", t |-> map[sessionId.n]]
            ELSE Undefined
      [] sessionId.kind = "inherited" -> ObjectPrototypeValue
      [] OTHER -> Undefined

Truthy(v) == v.kind # "undefined"

\* whether the session map has an entry of its own under the header's value
InMap(map, sessionId) == sessionId.kind = "uuid" /\ map[sessionId.n] # 0

\* sessionId is truthy when the header is present and not empty
Present(sessionId) == sessionId.kind # "absent"

BadRequest == [status |-> 400, code |-> -32000]
InternalError == [status |-> 500, code |-> -32603]
NoReply == [status |-> 0, code |-> 0]

NoMessage == [method |-> "none", isInit |-> FALSE]

NoRequest ==
    [outcome |-> "none", method |-> "none", sessionId |-> NoSessionId,
     isInit |-> FALSE, reply |-> NoReply, handedTo |-> 0,
     handedMsg |-> NoMessage, inMapBefore |-> FALSE,
     mapChanged |-> FALSE, created |-> 0, ownerBefore |-> "none",
     threw |-> FALSE, headersSent |-> FALSE]

Unborn ==
    [state |-> "unborn", sessionId |-> 0, onclose |-> FALSE, steps |-> <<>>]

\* the transports that carry session id k
OwnersOf(k) == {t \in Transports : tr[t].sessionId = k}

\* the life-cycle state of the session a header names, read from the
\* transports themselves and not from the session map
OwnerState(sessionId) ==
    IF sessionId.kind # "uuid" \/ OwnersOf(sessionId.n) = {} THEN "none"
    ELSE IF \E t \in OwnersOf(sessionId.n) : tr[t].state = "open" THEN "open"
    ELSE "closed"

\* (mutant) a handler that waits for its network answer holds the process:
\* nothing else is handled until the answer has come
RunningUnlessAwaiting ==
    /\ sd.pc # "exited"
    /\ \A c \in DOMAIN tools : tools[c].pc \notin {"auth", "inventory"}

Running == sd.pc # "exited"

(* ----------------------------- token cache --------------------------- *)

\* the safety margin of the cache check, in seconds
SafetyMargin == 60

Calls == 1..MaxCalls

\* cachedDynamicsToken = null; the tokens of hop 2 are numbered from 1.
\* expiresAt is kept with its JavaScript type: the cache check compares it as
\* a number, whatever its type
Null == [token |-> 0, expiresAt |-> 0, expiresAtType |-> "number"]

\* expires_in of a hop 2 response, in seconds; 0 stands for a missing or zero
\* value
ExpiresInValues == {0, 30, 60, 120}

\* the JSON type of expires_in in a hop 2 response: the body is parsed with
\* response.json() and is not validated beyond the truthiness of its fields
ExpiresInTypes == {"number", "string"}

\* no hop 2 response received
NoResponse ==
    [kind |-> "none", access_token |-> FALSE, expires_in |-> 0,
     expires_in_type |-> "number"]

NoResult ==
    [kind |-> "none", token |-> 0, error |-> "none", source |-> "none",
     expiresAt |-> 0, at |-> 0, details |-> "none"]

\* an invocation: where it stands, the outbound requests it has sent, the
\* cache and the time it started with, and the answer hop 1 gave
NoCall ==
    [pc |-> "idle", log |-> <<>>, cacheAtStart |-> Null, startedAt |-> 0,
     aad |-> "none", dynamicsData |-> NoResponse]

Done == [NoCall EXCEPT !.pc = "done"]

(* ---------------------------- tool results --------------------------- *)

\* The servers of the repository that offer the inventory tools:
\*   "part_001"   the /mcp server with the token cache
\*   "index_mcp"  the /mcp server of src/src/index.ts (lines 1-288)
\*   "part_000"   the SSE inventory server
\*   "index_sse"  the SSE server of src/src/index.ts (lines 290-1065)
Servers == {"part_001", "index_mcp", "part_000", "index_sse"}

\* the servers whose handlers put isError: true on the results of failures
SetsErrorFlag(srv) == srv \in {"part_001", "index_mcp"}

\* the servers whose query-inventory handler tests response.ok
ChecksResponseOk(srv) == srv \in {"part_001", "index_mcp"}

\* HTTP statuses of the inventory endpoint's answers
Statuses == {200, 403, 502}

\* response.ok
ResponseOk(status) == status >= 200 /\ status <= 299

\* Bodies of the inventory endpoint's answers: a JSON document, written here
\* as the literal of the one number in it, or text that is no JSON
NumberLiterals == {"5", "5.0", "9007199254740993"}
NotJson == "<html>"
Bodies == NumberLiterals \cup {NotJson}

\* (mutant) a parser that takes every body for JSON
IsJsonAlways(body) == TRUE

\* whether response.json() resolves
IsJson(body) == body \in NumberLiterals

\* JSON.stringify(await response.json(), null, 2): the number is read as a
\* double and written in its shortest form
Restringify(body) ==
    CASE body = "5.0" -> "5"
      [] body = "9007199254740993" -> "9007199254740992"
      [] OTHER -> body

\* the number a literal denotes
ValueOf(literal) == IF literal = "5.0" THEN "5" ELSE literal

\* an answer of the inventory endpoint, or the failure of the request
InventoryResponses ==
    [kind : {"http"}, status : Statuses, body : Bodies]
    \cup {[kind |-> "failure", status |-> 0, body |-> NotJson]}

NoAnswer == [kind |-> "none", status |-> 0, body |-> NotJson]

\* a CallToolResult: what it reports, its isError flag, and what its text
\* holds besides the error message: the data, or a details field
NoToolResult ==
    [kind |-> "none", isError |-> FALSE, status |-> 0, data |-> "none",
     details |-> "none"]

\* the result of a failure, flagged as the server flags it
FailureResult(srv, kind, details) ==
    [NoToolResult EXCEPT !.kind = kind, !.isError = SetsErrorFlag(srv),
                         !.details = details]

\* the query-inventory handler of server srv, from the answer r of the
\* inventory endpoint to its result: response.json() throws on a body that
\* is no JSON, a status that is not 2xx is reported where the handler tests
\* response.ok, and everything else is returned as the data
InventoryResult(srv, r) ==
    IF r.kind = "failure" \/ ~IsJson(r.body)
    THEN FailureResult(srv, "queryFailed", "message")
    ELSE IF ChecksResponseOk(srv) /\ ~ResponseOk(r.status)
    THEN [FailureResult(srv, "upstreamRejected", Restringify(r.body))
             EXCEPT !.status = r.status]
    ELSE [NoToolResult EXCEPT !.kind = "data", !.data = Restringify(r.body)]

\* The inputs of a tool call on a server without token cache, each as
\* whether it is present and not empty. credentials stands for tenant_id,
\* client_id and client_secret together, which every handler treats alike.
Params ==
    [credentials : BOOLEAN, fno_id : BOOLEAN, access_token : BOOLEAN,
     product : BOOLEAN]

\* the environment of such a server: whether config holds the credentials
\* and whether it holds fnoId
Configs == [credentials : BOOLEAN, fnoId : BOOLEAN]

Tools == {"authenticate-dynamics", "query-inventory"}

\* a tool call of a server without token cache: the server, the tool, its
\* inputs, where the handler stands, the requests it has sent, the answers
\* it got and its result
NoHandler ==
    [server |-> "none", tool |-> "none",
     params |-> [credentials |-> FALSE, fno_id |-> FALSE,
                 access_token |-> FALSE, product |-> FALSE],
     config |-> [credentials |-> FALSE, fnoId |-> FALSE],
     pc |-> "idle", log |-> <<>>, aad |-> "none", dynamics |-> "none",
     answer |-> NoAnswer, out |-> NoToolResult]

\* a query-inventory call: where its handler stands, the transport its
\* request arrived on, the transport the server was attached to when it
\* arrived, the transport its result was sent through, and the stage it was
\* at when the transport it arrived on closed
NoTool ==
    [pc |-> "none", arrivedOn |-> 0, captured |-> 0, sentVia |-> 0,
     result |-> "none", closedAt |-> "none", out |-> NoToolResult,
     answer |-> NoAnswer, acquired |-> 0, posts |-> <<>>]

NoReturn ==
    [id |-> 0, log |-> <<>>, cacheAtStart |-> Null, startedAt |-> 0,
     aad |-> "none", dynamicsData |-> NoResponse,
     cacheBeforeReturn |-> Null, cacheAtReturn |-> Null,
     result |-> NoResult]

Init ==
    /\ transports = [k \in Uuids |-> 0]
    /\ tr = [t \in Transports |-> Unborn]
    /\ lastReq = NoRequest
    /\ sd = [pc |-> "idle", snapshot |-> {}, visited |-> {}]
    /\ cachedDynamicsToken = Null
    /\ config \in [credentials : BOOLEAN]
    /\ now = 0
    /\ ticks = 0
    /\ calls = [c \in Calls |-> NoCall]
    /\ lastCall = NoReturn
    /\ server = [transport |-> 0]
    /\ tools = [c \in Calls |-> NoTool]
    /\ h = NoHandler

\* (mutant) a generator that hands out the id it generated last once more
randomUUIDRepeats ==
    IF \E t \in Transports : tr[t].sessionId # 0
    THEN Cardinality({t \in Transports : tr[t].sessionId # 0})
    ELSE 1

\* randomUUID(): an id never generated before
randomUUID == Cardinality({t \in Transports : tr[t].sessionId # 0}) + 1

\* (mutant) a close handler that leaves the entry in the map
OncloseKeepsEntry(map, t) == map

\* (mutant) the close handler empties the map
OncloseClearsMap(map, t) == [k \in Uuids |-> 0]

\* transport.onclose: delete the entry when the transport has an id and the
\* map has an entry under it
OncloseHandler(map, t) ==
    IF tr[t].sessionId # 0 /\ map[tr[t].sessionId] # 0
    THEN [map EXCEPT ![tr[t].sessionId] = 0]
    ELSE map

\* transport.close(): the transport fires its onclose handler when one is set
CloseTransport(map, t) ==
    IF tr[t].onclose THEN OncloseHandler(map, t) ELSE map


\* server.connect(transport): the one server is attached to the transport
\* connected last
Connect(srv, t) == [srv EXCEPT !.transport = t]

\* a transport the server was connected to closes: the server is attached to
\* no transport any more
Disconnect(srv, t) == [srv EXCEPT !.transport = 0]

\* the stage a query-inventory call is at
Stage(c) == IF tools[c].pc = "auth" THEN calls[c].pc ELSE tools[c].pc

\* (mutant) the close of a transport cancels the calls that arrived on it
OncloseToolCancels(tool, stage) ==
    [tool EXCEPT !.closedAt = stage, !.pc = "cancelled"]

\* what the close of a transport does to a call that arrived on it and is
\* still running: nothing but that the close is on record
OncloseTool(tool, stage) == [tool EXCEPT !.closedAt = stage]

\* the calls in flight, once transport t has closed
ToolsAfterClose(t) ==
    [c \in Calls |->
        IF tools[c].arrivedOn = t /\ tools[c].pc \in {"auth", "inventory"}
        THEN OncloseTool(tools[c], Stage(c))
        ELSE tools[c]]

\* (mutant) every transport is registered under the first id
OnsessioninitializedFirstId(map, newSessionId, t) ==
    [map EXCEPT ![CHOOSE k \in Uuids : \A j \in Uuids : k <= j] = t]

\* onsessioninitialized: register the transport under its new session id
Onsessioninitialized(map, newSessionId, t) ==
    [map EXCEPT ![newSessionId] = t]

\* the transport the next initialize request constructs
NewTransport ==
    IF \E t \in Transports : tr[t].state = "unborn"
    THEN CHOOSE t \in Transports :
            /\ tr[t].state = "unborn"
            /\ \A u \in Transports : tr[u].state = "unborn" => t <= u
    ELSE 0

\* transport.handleRequest(req, res, req.body) on a transport that already
\* has a session: the request reaches the transport as it came in; a DELETE
\* terminates the session, which closes the transport.
HandleRequestExisting(t, method, isInit) ==
    /\ tr' = IF method = "DELETE"
             THEN [tr EXCEPT ![t].state = "closed",
                             ![t].steps = Append(@, "close")]
             ELSE tr
    /\ transports' = IF method = "DELETE"
                     THEN CloseTransport(transports, t)
                     ELSE transports
    /\ server' = IF method = "DELETE" THEN Disconnect(server, t) ELSE server

\* (mutant) the close handler is never attached
ConstructTransportNoOnclose ==
    [state |-> "connecting", sessionId |-> 0, onclose |-> FALSE,
     steps |-> <<"new", "connect">>]

\* new StreamableHTTPServerTransport({...}) followed by transport.onclose =
\* ...: the transport has no session id yet, and server.connect is called
ConstructTransport ==
    [state |-> "connecting", sessionId |-> 0, onclose |-> TRUE,
     steps |-> <<"new", "onclose", "connect">>]

\* How transport.handleRequest ends for the /mcp handler: it returns, having
\* answered on res; it throws before anything was written to res; or it
\* throws after the response has been started
HandleOutcomes == {"returns", "throws", "throwsAfterHeaders"}

\* (mutant) the catch block answers without testing res.headersSent
CatchReplyAlways(headersSent) == InternalError

\* if (!res.headersSent) res.status(500).json({... code: -32603 ...})
CatchReply(headersSent) == IF headersSent THEN NoReply ELSE InternalError

\* the catch block of the /mcp handler, entered with res.headersSent as given
Caught(req, headersSent) ==
    [req EXCEPT !.threw = TRUE, !.headersSent = headersSent,
                !.reply = CatchReply(headersSent)]

\* transport.handleRequest has ended as `ho` says
AfterHandleRequest(req, ho) ==
    IF ho = "returns" THEN [req EXCEPT !.headersSent = TRUE]
    ELSE Caught(req, ho = "throwsAfterHeaders")

\* app.all("/mcp"): one request up to its first suspension point, as far as
\* the sessions and the server go
McpHandle(method, sessionId, isInit) ==
    LET found == Lookup(transports, sessionId)
        req == [NoRequest EXCEPT !.method = method, !.sessionId = sessionId,
                                 !.isInit = isInit,
                                 !.inMapBefore = InMap(transports, sessionId),
                                 !.ownerBefore = OwnerState(sessionId)]
    IN
    /\ Running
    /\ IF Present(sessionId) /\ Truthy(found)
       THEN IF found.kind = "transport"
            THEN /\ HandleRequestExisting(found.t, method, isInit)
                 /\ \E ho \in HandleOutcomes :
                       lastReq' =
                          AfterHandleRequest(
                              [req EXCEPT !.outcome = "routed",
                                          !.handedTo = found.t,
                                          !.handedMsg = [method |-> method,
                                                         isInit |-> isInit],
                                          !.mapChanged =
                                              (transports' # transports)],
                              ho)
            ELSE \* transport.handleRequest is not a function: TypeError,
                 \* caught by the handler's catch
                 /\ lastReq' = Caught([req EXCEPT !.outcome = "error"], FALSE)
                 /\ UNCHANGED <<transports, tr, server>>
       ELSE IF method = "POST" /\ ~Present(sessionId) /\ isInit
       THEN /\ NewTransport # 0
            /\ tr' = [tr EXCEPT ![NewTransport] = ConstructTransport]
            /\ lastReq' = [req EXCEPT !.outcome = "connecting",
                                      !.created = NewTransport]
            /\ server' = Connect(server, NewTransport)
            /\ UNCHANGED transports
       ELSE /\ lastReq' = [req EXCEPT !.outcome = "rejected",
                                      !.reply = BadRequest]
            /\ UNCHANGED <<transports, tr, server>>
    /\ UNCHANGED sd

\* the transport a request with this method and header closes, 0 when none
ClosedBy(method, sessionId) ==
    IF /\ method = "DELETE"
       /\ Present(sessionId)
       /\ Lookup(transports, sessionId).kind = "transport"
    THEN Lookup(transports, sessionId).t
    ELSE 0

\* app.all("/mcp"): one request up to its first suspension point
McpRequest(method, sessionId, isInit) ==
    /\ McpHandle(method, sessionId, isInit)
    /\ tools' = ToolsAfterClose(ClosedBy(method, sessionId))
    /\ UNCHANGED authVars
    /\ UNCHANGED handlerVars

\* What happens once server.connect(transport) has settled, for the request
\* that constructed transport t:
\*   "connectThrows"  server.connect rejects
\*   "refused"        handleRequest answers the request itself without
\*                    starting a session (the transport refuses it)
\*   "ok"             handleRequest starts the session and handles the message
\*   "throwsAfter"    handleRequest starts the session and then throws,
\*                    nothing written to res yet
\*   "throwsAfterHeaders"  handleRequest starts the session, starts the
\*                    response and then throws
ConnectOutcomes ==
    {"connectThrows", "refused", "ok", "throwsAfter", "throwsAfterHeaders"}

\* transport.handleRequest on the freshly connected transport of an
\* initialize request: generate the id, run onsessioninitialized, then
\* dispatch the message
HandleRequestInitialize(t) ==
    /\ tr' = [tr EXCEPT ![t].state = "open",
                        ![t].sessionId = randomUUID,
                        ![t].steps = @ \o <<"handleRequest", "sessionId",
                                            "register", "onmessage">>]
    /\ transports' = Onsessioninitialized(transports, randomUUID, t)

\* app.all("/mcp"): the rest of an initialize request, after the await
McpConnected(t, outcome) ==
    LET req == [NoRequest EXCEPT !.method = "POST", !.isInit = TRUE,
                                 !.created = t]
        msg == [method |-> "POST", isInit |-> TRUE]
    IN
    /\ Running
    /\ tr[t].state = "connecting"
    /\ CASE outcome = "connectThrows" ->
               /\ tr' = [tr EXCEPT ![t].state = "failed"]
               /\ lastReq' = Caught([req EXCEPT !.outcome = "error"], FALSE)
               /\ UNCHANGED transports
         [] outcome = "refused" ->
               /\ tr' = [tr EXCEPT ![t].state = "failed",
                                   ![t].steps = Append(@, "handleRequest")]
               /\ lastReq' = AfterHandleRequest(
                                 [req EXCEPT !.outcome = "refused",
                                             !.handedTo = t,
                                             !.handedMsg = msg],
                                 "returns")
               /\ UNCHANGED transports
         [] outcome = "ok" ->
               /\ HandleRequestInitialize(t)
               /\ lastReq' = AfterHandleRequest(
                                 [req EXCEPT !.outcome = "initialized",
                                             !.handedTo = t,
                                             !.handedMsg = msg,
                                             !.mapChanged = TRUE],
                                 "returns")
         [] outcome \in {"throwsAfter", "throwsAfterHeaders"} ->
               /\ HandleRequestInitialize(t)
               /\ lastReq' = AfterHandleRequest(
                                 [req EXCEPT !.outcome = "error",
                                             !.handedTo = t,
                                             !.handedMsg = msg,
                                             !.mapChanged = TRUE],
                                 IF outcome = "throwsAfter" THEN "throws"
                                 ELSE outcome)
    /\ UNCHANGED <<sd, server, tools>>
    /\ UNCHANGED authVars
    /\ UNCHANGED handlerVars

(* --------------------------- close events ----------------------------- *)

\* how many times the transport has fired its close event
Closes(steps) == Len(SelectSeq(steps, LAMBDA x : x = "close"))

\* The close event of transport t fires for a reason other than a DELETE or
\* the shutdown loop (the SDK closes the transport, or close() is called on
\* it again): whatever state the transport is in, before its session is
\* initialized or after it has closed already, its close handler runs.
TransportCloses(t) ==
    /\ Running
    /\ tr[t].state # "unborn"
    /\ Closes(tr[t].steps) < MaxCloses
    /\ tr' = [tr EXCEPT ![t].state = "closed",
                        ![t].steps = Append(@, "close")]
    /\ transports' = CloseTransport(transports, t)
    /\ server' = Disconnect(server, t)
    /\ tools' = ToolsAfterClose(t)
    /\ UNCHANGED <<lastReq, sd>>
    /\ UNCHANGED authVars
    /\ UNCHANGED handlerVars

NextClose ==
    \/ McpRequest("POST", NoSessionId, TRUE)
    \/ \E k \in Uuids :
          /\ McpRequest("DELETE", [kind |-> "uuid", n |-> k], FALSE)
          /\ ~lastReq'.threw
    \/ \E t \in Transports, o \in ConnectOutcomes : McpConnected(t, o)
    \/ \E t \in Transports : TransportCloses(t)

SpecClose == Init /\ [][NextClose]_vars

(* ------------------------------ shutdown ------------------------------ *)

OwnKeys(map) == {k \in Uuids : map[k] # 0}

\* transports[sessionId].close() for key k of the session map
CloseKey(k) ==
    /\ tr' = [tr EXCEPT ![transports[k]].state = "closed",
                        ![transports[k]].steps = Append(@, "close")]
    /\ transports' = CloseTransport(transports, transports[k])
    /\ server' = Disconnect(server, transports[k])
    /\ tools' = ToolsAfterClose(transports[k])

\* process.on('SIGINT'): the handler starts, for-in fixes the keys it is
\* bound to visit and the first transport is closed; the handler then awaits.
\* With no key to visit it reaches process.exit(0) without suspending.
Sigint ==
    /\ sd.pc = "idle"
    /\ IF OwnKeys(transports) = {}
       THEN /\ sd' = [sd EXCEPT !.pc = "exited"]
            /\ UNCHANGED <<transports, tr, server, tools>>
       ELSE \E k \in OwnKeys(transports) :
               /\ \A j \in OwnKeys(transports) : k <= j
               /\ CloseKey(k)
               /\ sd' = [pc |-> "looping", snapshot |-> OwnKeys(transports),
                         visited |-> {k}]
    /\ UNCHANGED lastReq
    /\ UNCHANGED authVars
    /\ UNCHANGED handlerVars

\* keys of the enumeration still to visit: a key deleted before it is visited
\* is skipped; keys are visited in insertion order
Remaining == (sd.snapshot \ sd.visited) \cap OwnKeys(transports)

\* keys added while the loop runs: the language leaves open whether for-in
\* visits them
Added == (OwnKeys(transports) \ sd.snapshot) \ sd.visited

\* the awaited close has settled and the loop goes on to the next key:
\* await transports[sessionId].close()
ShutdownClose(k) ==
    /\ sd.pc = "looping"
    /\ IF Remaining # {}
       THEN k \in Remaining /\ \A j \in Remaining : k <= j
       ELSE k \in Added
    /\ CloseKey(k)
    /\ sd' = [sd EXCEPT !.visited = @ \cup {k}]
    /\ UNCHANGED lastReq
    /\ UNCHANGED authVars
    /\ UNCHANGED handlerVars

\* the awaited close has settled, the loop is over: process.exit(0)
ShutdownExit ==
    /\ sd.pc = "looping"
    /\ Remaining = {}
    /\ sd' = [sd EXCEPT !.pc = "exited"]
    /\ UNCHANGED <<transports, tr, lastReq, server, tools>>
    /\ UNCHANGED authVars
    /\ UNCHANGED handlerVars

Next ==
    \/ \E m \in Methods, s \in SessionIdHeaders, i \in BOOLEAN :
          McpRequest(m, s, i)
    \/ \E t \in Transports, o \in ConnectOutcomes : McpConnected(t, o)
    \/ Sigint
    \/ \E k \in Uuids : ShutdownClose(k)
    \/ ShutdownExit

Spec == Init /\ [][Next]_vars

(* ------------------------ getDynamicsAccessToken ---------------------- *)

\* (mutant) the cache check without the safety margin
CacheValidNoMargin(cache, t) ==
    cache # Null /\ cache.expiresAt * TicksPerSecond > t

\* (mutant) the cache check with >= in place of >
CacheValidAtLeast(cache, t) ==
    /\ cache # Null
    /\ cache.expiresAt * TicksPerSecond
          >= t + SafetyMargin * TicksPerSecond

\* (mutant) the cache is never consulted
CacheValidNever(cache, t) == FALSE

\* cachedDynamicsToken && cachedDynamicsToken.expiresAt >
\*     (Date.now() / 1000) + 60, at time t (in ticks)
CacheValid(cache, t) ==
    /\ cache # Null
    /\ cache.expiresAt * TicksPerSecond
          > t + SafetyMargin * TicksPerSecond

\* (mutant) the time is not brought down to whole seconds
ExpiresAtUnfloored(t, expires_in) == t + expires_in

\* Math.floor(Date.now() / 1000) + dynamicsData.expires_in
ExpiresAt(t, expires_in) == (t \div TicksPerSecond) + expires_in

\* Math.floor(Date.now() / 1000) + dynamicsData.expires_in when expires_in is
\* a string: + concatenates, and the decimal digits of expires_in follow
\* those of the time; Shift(a, n) is a followed by as many zeros as n has
\* digits
RECURSIVE Shift(_, _)
Shift(a, n) == IF n < 10 THEN a * 10 ELSE Shift(a * 10, n \div 10)

ExpiresAtConcat(t, expires_in) ==
    Shift(t \div TicksPerSecond, expires_in) + expires_in

\* the record of invocation c returning `result`, having sent the requests
\* of `log`, with the cache as it was when the last step began and as it is
\* left
Return(c, call, log, cache, result) ==
    [id |-> c, log |-> log, cacheAtStart |-> call.cacheAtStart,
     startedAt |-> call.startedAt, aad |-> call.aad,
     dynamicsData |-> call.dynamicsData,
     cacheBeforeReturn |-> cachedDynamicsToken, cacheAtReturn |-> cache,
     result |-> result]

\* what an error result carries in its details field: the parsed body of the
\* response that had no token, or the message of the exception
Details(error) ==
    CASE error = "aad" -> "aadData"
      [] error = "dynamics" -> "dynamicsData"
      [] error = "exception" -> "message"
      [] OTHER -> "none"

ErrorResult(error) ==
    [NoResult EXCEPT !.kind = "error", !.error = error, !.at = now,
                     !.details = Details(error)]

\* (mutant) each request is sent a second time
SendRequestTwice(log, hop) == log \o <<hop, hop>>

\* await fetch(...): one outbound request, recorded in the call's log
SendRequest(log, hop) == Append(log, hop)

\* (mutant) every failure leaves the cache as it was
CacheAfterFailureKeeps(error, cache) == cache

\* (mutant) every failure clears the cache
CacheAfterFailureClears(error, cache) == Null

\* the cache after a failed call: the early returns for a response without
\* token do not assign it, the catch block sets it to null
CacheAfterFailure(error, cache) ==
    IF error = "exception" THEN Null ELSE cache

\* (mutant) a token already cached is kept
StoreTokenKeepsFirst(cache, entry) ==
    IF cache # Null THEN cache ELSE entry

\* cachedDynamicsToken = {...}: the entry replaces whatever is cached
StoreToken(cache, entry) == entry

TokenResult(entry, source) ==
    [NoResult EXCEPT !.kind = "token", !.token = entry.token,
                     !.source = source, !.expiresAt = entry.expiresAt,
                     !.at = now]

\* the transports the result of call c may be sent through: the server
\* answers through the transport it is attached to, the one it was attached
\* to when the request arrived or the one it is attached to when the handler
\* settles, as the SDK release has it
ResultTransports(tls, c) == {tls[c].captured, server.transport}

\* the handler of call c has settled: the server sends its result
Deliver(tls, c, res) ==
    \E via \in ResultTransports(tls, c) :
        tools' = [tls EXCEPT ![c] = [@ EXCEPT !.pc = "done",
                                              !.result = res.kind,
                                              !.out = res,
                                              !.sentVia = via]]

\* the query-inventory handler once `await getDynamicsAccessToken()` has
\* settled with the result `auth`: an error is returned as it is, otherwise
\* config.fnoId is checked and the inventory request is sent, with
\* authResult.token as its bearer token; `posts` holds the bearer tokens of
\* the inventory requests the call has sent
AfterAuth(tls, c, auth) ==
    IF auth.kind = "error"
    THEN Deliver(tls, c, FailureResult("part_001", "authError", auth.details))
    ELSE IF ~config.credentials
    THEN Deliver(tls, c, FailureResult("part_001", "fnoMissing", "none"))
    ELSE tools' = [tls EXCEPT ![c].pc = "inventory",
                              ![c].acquired = auth.token,
                              ![c].posts = SendRequest(@, auth.token)]

\* the query-inventory handler of call c goes on when the invocation it
\* awaits has returned in this step
Continue(c) ==
    IF tools[c].pc = "auth" /\ calls'[c].pc = "done"
    THEN AfterAuth(tools, c, lastCall'.result)
    ELSE UNCHANGED tools

\* getDynamicsAccessToken(), up to its first await: the cache check, the
\* check of the configured credentials, and the hop 1 request
AcquireToken(c) ==
    LET started == [calls[c] EXCEPT !.cacheAtStart = cachedDynamicsToken,
                                    !.startedAt = now]
    IN
    /\ calls[c].pc = "idle"
    /\ \A b \in Calls : b < c => calls[b].pc # "idle"
    /\ IF CacheValid(cachedDynamicsToken, now)
       THEN /\ calls' = [calls EXCEPT ![c] = Done]
            /\ lastCall' = Return(c, started, <<>>, cachedDynamicsToken,
                                  TokenResult(cachedDynamicsToken, "cache"))
       ELSE IF ~config.credentials
       THEN /\ calls' = [calls EXCEPT ![c] = Done]
            /\ lastCall' = Return(c, started, <<>>, cachedDynamicsToken,
                                  ErrorResult("credentials"))
       ELSE /\ calls' = [calls EXCEPT ![c] =
                            [started EXCEPT !.pc = "hop1",
                                            !.log = SendRequest(<<>>, "hop1")]]
            /\ UNCHANGED lastCall
    /\ UNCHANGED <<cachedDynamicsToken, config, now, ticks>>

\* an invocation of getDynamicsAccessToken() on its own
GetDynamicsAccessToken(c) ==
    /\ AcquireToken(c)
    /\ UNCHANGED tools
    /\ UNCHANGED sessionVars
    /\ UNCHANGED handlerVars

\* what the identity provider's answer amounts to: a body with an
\* access_token, a body without one, or a network / parse exception
AadResponses == {"token", "noToken", "exception"}

\* (mutant) the check of the hop 1 body is missing
AccessTokenNeverMissing(r) == FALSE

\* !aadData.access_token
AccessTokenMissing(r) == r = "noToken"

\* the return of a failed call: the error result, and the cache as the
\* failure leaves it
Fail(c, call, error) ==
    /\ cachedDynamicsToken' = CacheAfterFailure(error, cachedDynamicsToken)
    /\ calls' = [calls EXCEPT ![c] = Done]
    /\ lastCall' = Return(c, call, call.log,
                          CacheAfterFailure(error, cachedDynamicsToken),
                          ErrorResult(error))

\* getDynamicsAccessToken(), from the hop 1 response to the hop 2 request
AadResponse(c, r) ==
    LET call == [calls[c] EXCEPT !.aad = r] IN
    /\ calls[c].pc = "hop1"
    /\ IF r = "exception"
       THEN Fail(c, call, "exception")
       ELSE IF AccessTokenMissing(r)
       THEN Fail(c, call, "aad")
       ELSE /\ calls' = [calls EXCEPT ![c] =
                            [call EXCEPT !.pc = "hop2",
                                         !.log = SendRequest(@, "hop2")]]
            /\ UNCHANGED <<cachedDynamicsToken, lastCall>>
    /\ Continue(c)
    /\ UNCHANGED <<config, now, ticks>>
    /\ UNCHANGED sessionVars
    /\ UNCHANGED handlerVars

\* the token service's answer: a body with or without access_token and with
\* some expires_in, a number or a string, or a network / parse exception
DynamicsResponses ==
    [kind : {"json"}, access_token : {TRUE}, expires_in : ExpiresInValues,
     expires_in_type : {"number"}]
    \cup [kind : {"json"}, access_token : {TRUE},
          expires_in : ExpiresInValues \ {0}, expires_in_type : {"string"}]
    \cup [kind : {"json"}, access_token : {FALSE}, expires_in : {0, 120},
          expires_in_type : {"number"}]
    \cup {[kind |-> "exception", access_token |-> FALSE, expires_in |-> 0,
           expires_in_type |-> "number"]}

\* the cache entry built from a hop 2 response; call c's token is token c
NewEntry(c, r) ==
    [token |-> c,
     expiresAt |-> IF r.expires_in_type = "string"
                   THEN ExpiresAtConcat(now, r.expires_in)
                   ELSE ExpiresAt(now, r.expires_in),
     expiresAtType |-> r.expires_in_type]

\* (mutant) only the access_token of the hop 2 body is tested
DynamicsTokenMissingIgnoresExpiry(r) == ~r.access_token

\* !dynamicsData.access_token || !dynamicsData.expires_in
DynamicsTokenMissing(r) == ~r.access_token \/ r.expires_in = 0

\* getDynamicsAccessToken(), from the hop 2 response to the return
DynamicsResponse(c, r) ==
    LET stored == StoreToken(cachedDynamicsToken, NewEntry(c, r))
        call == [calls[c] EXCEPT !.dynamicsData = r]
    IN
    /\ calls[c].pc = "hop2"
    /\ IF r.kind = "exception"
       THEN Fail(c, call, "exception")
       ELSE IF DynamicsTokenMissing(r)
       THEN Fail(c, call, "dynamics")
       ELSE /\ cachedDynamicsToken' = stored
            /\ calls' = [calls EXCEPT ![c] = Done]
            /\ lastCall' = Return(c, call, Append(call.log, "store"),
                                  stored, TokenResult(NewEntry(c, r), "fresh"))
    /\ Continue(c)
    /\ UNCHANGED <<config, now, ticks>>
    /\ UNCHANGED sessionVars
    /\ UNCHANGED handlerVars

\* the clock advances by one tick or by the safety margin
TickSteps == {1, SafetyMargin * TicksPerSecond}

Tick(d) ==
    /\ ticks < MaxTicks
    /\ now' = now + d
    /\ ticks' = ticks + 1
    /\ UNCHANGED <<cachedDynamicsToken, config, calls, lastCall, tools>>
    /\ UNCHANGED sessionVars
    /\ UNCHANGED handlerVars

NextAuth ==
    \/ \E c \in Calls : GetDynamicsAccessToken(c)
    \/ \E c \in Calls, r \in AadResponses : AadResponse(c, r)
    \/ \E c \in Calls, r \in DynamicsResponses : DynamicsResponse(c, r)
    \/ \E d \in TickSteps : Tick(d)

SpecAuth == Init /\ [][NextAuth]_vars

(* --------------------------- query-inventory -------------------------- *)

ToolCalls == 1..MaxToolCalls

\* A POST that carries the id of a session and a tools/call request for
\* query-inventory: the /mcp handler routes it to the session's transport,
\* the transport hands the message to the server, and the tool handler runs
\* up to its first suspension point.
QueryInventory(sessionId, c) ==
    LET found == Lookup(transports, sessionId) IN
    /\ c \in Calls
    /\ tools[c].pc = "none"
    /\ Present(sessionId)
    /\ found.kind = "transport"
    /\ McpHandle("POST", sessionId, FALSE)
    /\ ~lastReq'.threw
    /\ AcquireToken(c)
    /\ LET arrived == [tools EXCEPT ![c] =
                          [NoTool EXCEPT !.pc = "auth",
                                         !.arrivedOn = found.t,
                                         !.captured = server.transport]]
       IN IF calls'[c].pc = "done"
          THEN AfterAuth(arrived, c, lastCall'.result)
          ELSE tools' = arrived
    /\ UNCHANGED handlerVars

\* (mutant) an upstream rejection invalidates the cached token
CacheAfterInventoryInvalidates(cache, res) ==
    IF res.kind = "upstreamRejected" THEN Null ELSE cache

\* the token cache after the inventory part of the handler: the handler
\* assigns nothing to it
CacheAfterInventory(cache, res) == cache

\* the query-inventory handler, from the inventory response to its return
InventoryResponse(c, r) ==
    /\ tools[c].pc = "inventory"
    /\ Deliver([tools EXCEPT ![c].answer = r], c,
               InventoryResult("part_001", r))
    /\ cachedDynamicsToken' =
          CacheAfterInventory(cachedDynamicsToken,
                              InventoryResult("part_001", r))
    /\ UNCHANGED <<config, now, ticks, calls, lastCall>>
    /\ UNCHANGED sessionVars
    /\ UNCHANGED handlerVars

\* the hop 2 answers of the calls made through query-inventory
ToolDynamicsResponses ==
    {r \in DynamicsResponses :
        r.expires_in \in {0, 120} /\ r.expires_in_type = "number"}

NextTools ==
    \/ McpRequest("POST", NoSessionId, TRUE)
    \/ \E k \in Uuids :
          /\ McpRequest("DELETE", [kind |-> "uuid", n |-> k], FALSE)
          /\ ~lastReq'.threw
    \/ \E t \in Transports : McpConnected(t, "ok")
    \/ \E k \in Uuids, c \in ToolCalls :
          QueryInventory([kind |-> "uuid", n |-> k], c)
    \/ \E c \in ToolCalls, r \in AadResponses : AadResponse(c, r)
    \/ \E c \in ToolCalls, r \in ToolDynamicsResponses : DynamicsResponse(c, r)
    \/ \E c \in ToolCalls, r \in InventoryResponses : InventoryResponse(c, r)

SpecTools == Init /\ [][NextTools]_vars

\* the answers concurrent calls get: hop 1 with a token or an exception,
\* hop 2 with a token valid for 120 seconds or an exception, and an
\* inventory answer that is a success or a transport failure
ConcurrentAadResponses == AadResponses \ {"noToken"}

ConcurrentDynamicsResponses ==
    {r \in ToolDynamicsResponses :
        r.kind = "exception" \/ (r.access_token /\ r.expires_in = 120)}

ConcurrentInventoryResponses ==
    {r \in InventoryResponses :
        r.kind = "failure" \/ (r.body = "5" /\ r.status = 200)}

\* query-inventory calls that run at the same time, on whichever sessions
NextConcurrent ==
    \/ McpRequest("POST", NoSessionId, TRUE)
    \/ \E t \in Transports : McpConnected(t, "ok")
    \/ \E k \in Uuids, c \in Calls :
          QueryInventory([kind |-> "uuid", n |-> k], c)
    \/ \E c \in Calls, r \in ConcurrentAadResponses : AadResponse(c, r)
    \/ \E c \in Calls, r \in ConcurrentDynamicsResponses :
          DynamicsResponse(c, r)
    \/ \E c \in Calls, r \in ConcurrentInventoryResponses :
          InventoryResponse(c, r)

SpecConcurrent == Init /\ [][NextConcurrent]_vars

(* ------------- the tool handlers of the servers without cache --------- *)

\* the servers whose tools take the credentials and the token as inputs
CachelessServers == Servers \ {"part_001"}

\* whether the two-hop authentication of the server tests the hop 2 body for
\* an access_token before it reports success
ChecksDynamicsToken(srv) == srv \in {"part_001", "index_mcp"}

\* whether the query-inventory handler of the server tests its inputs
\* before it sends the request
ChecksQueryInput(srv) == srv \in {"part_000", "index_sse"}

\* tenant_id || config.tenantId and the like: an input falls back to the
\* configured default
Credentials(call) == call.params.credentials \/ call.config.credentials
FnoId(call) == call.params.fno_id \/ call.config.fnoId

\* (mutant) the inputs are not tested
MissingInputIgnored(call) == FALSE

\* the test of the inputs at the top of a handler
MissingInput(call) ==
    IF call.tool = "authenticate-dynamics"
    THEN ~Credentials(call) \/ ~FnoId(call)
    ELSE /\ ChecksQueryInput(call.server)
         /\ ~call.params.access_token \/ ~FnoId(call) \/ ~call.params.product

\* the handler returns `res`
Finish(call, res) == [call EXCEPT !.pc = "done", !.out = res]

\* the result of a completed authentication: the text carries
\* dynamicsData.access_token, which JSON.stringify leaves out when it is
\* undefined
Authenticated(r) ==
    [NoToolResult EXCEPT !.kind = "authenticated",
                         !.data = IF r = "token" THEN "dynamics_token"
                                                 ELSE "undefined"]

\* a tools/call request for `tool` arrives at a server without cache: the
\* handler runs up to its first await
ToolCall(srv, tool, params, cfg) ==
    LET call == [NoHandler EXCEPT !.server = srv, !.tool = tool,
                                  !.params = params, !.config = cfg]
    IN
    /\ h.pc = "idle"
    /\ lastReq = NoRequest
    /\ h' = IF MissingInput(call)
            THEN Finish(call, FailureResult(srv, "missingInput", "none"))
            ELSE IF tool = "authenticate-dynamics"
            THEN [call EXCEPT !.pc = "hop1",
                              !.log = SendRequest(<<>>, "hop1")]
            ELSE [call EXCEPT !.pc = "inventory",
                              !.log = SendRequest(<<>>, "inventory")]
    /\ UNCHANGED tools
    /\ UNCHANGED authVars
    /\ UNCHANGED sessionVars

\* authenticate-dynamics, from the hop 1 response to the hop 2 request
HandlerAadResponse(r) ==
    LET call == [h EXCEPT !.aad = r] IN
    /\ h.pc = "hop1"
    /\ h' = IF r = "exception"
            THEN Finish(call, FailureResult(h.server, "authFailed", "message"))
            ELSE IF AccessTokenMissing(r)
            THEN Finish(call, FailureResult(h.server, "aadFailed", "aadData"))
            ELSE [call EXCEPT !.pc = "hop2", !.log = SendRequest(@, "hop2")]
    /\ UNCHANGED tools
    /\ UNCHANGED authVars
    /\ UNCHANGED sessionVars

\* authenticate-dynamics, from the hop 2 response to its return
HandlerDynamicsResponse(r) ==
    LET call == [h EXCEPT !.dynamics = r] IN
    /\ h.pc = "hop2"
    /\ h' = IF r = "exception"
            THEN Finish(call, FailureResult(h.server, "authFailed", "message"))
            ELSE IF ChecksDynamicsToken(h.server) /\ AccessTokenMissing(r)
            THEN Finish(call, FailureResult(h.server, "dynamicsFailed",
                                            "dynamicsData"))
            ELSE Finish(call, Authenticated(r))
    /\ UNCHANGED tools
    /\ UNCHANGED authVars
    /\ UNCHANGED sessionVars

\* query-inventory, from the inventory response to its return
HandlerInventoryResponse(r) ==
    /\ h.pc = "inventory"
    /\ h' = Finish([h EXCEPT !.answer = r], InventoryResult(h.server, r))
    /\ UNCHANGED tools
    /\ UNCHANGED authVars
    /\ UNCHANGED sessionVars

\* each run is the run of one server: the /mcp server with the token cache
\* runs while no tool call has reached a server without cache
CacheServer == h = NoHandler

NextHandlers ==
    \/ CacheServer /\ McpRequest("POST", NoSessionId, TRUE)
    \/ \E k \in Uuids :
          /\ CacheServer
          /\ McpRequest("DELETE", [kind |-> "uuid", n |-> k], FALSE)
          /\ ~lastReq'.threw
    \/ \E t \in Transports : CacheServer /\ McpConnected(t, "ok")
    \/ \E k \in Uuids, c \in ToolCalls :
          CacheServer /\ QueryInventory([kind |-> "uuid", n |-> k], c)
    \/ \E c \in ToolCalls, r \in AadResponses :
          CacheServer /\ AadResponse(c, r)
    \/ \E c \in ToolCalls, r \in ToolDynamicsResponses :
          CacheServer /\ DynamicsResponse(c, r)
    \/ \E c \in ToolCalls, r \in InventoryResponses :
          CacheServer /\ InventoryResponse(c, r)
    \/ \E srv \in CachelessServers, tool \in Tools, params \in Params,
          cfg \in Configs : ToolCall(srv, tool, params, cfg)
    \/ \E r \in AadResponses : HandlerAadResponse(r)
    \/ \E r \in AadResponses : HandlerDynamicsResponse(r)
    \/ \E r \in InventoryResponses : HandlerInventoryResponse(r)

SpecHandlers == Init /\ [][NextHandlers]_vars

(* -------------------- the sessions of the SSE servers ----------------- *)

\* res.status(400).send("No transport found for sessionId"): plain text, no
\* JSON-RPC error code
SseBadRequest == [status |-> 400, code |-> 0]

\* the values of req.query.sessionId: absent, a name inherited from
\* Object.prototype, or an id
SessionIdQueries == SessionIdHeaders

\* new SSEServerTransport(fullUri, res), which generates the session id in
\* its constructor, then the registration and res.on("close", ...)
ConstructSseTransport ==
    [state |-> "open", sessionId |-> randomUUID, onclose |-> TRUE,
     steps |-> <<"new", "sessionId", "register", "onclose", "connect">>]

\* res.on("close"): delete transports[transport.sessionId]
SseOnclose(map, t) == [map EXCEPT ![tr[t].sessionId] = 0]

\* app.get("/sse"): the handler up to its await of server.connect; nothing
\* follows the await, and a rejection of server.connect is not caught
SseGet ==
    /\ NewTransport # 0
    /\ tr' = [tr EXCEPT ![NewTransport] = ConstructSseTransport]
    /\ transports' = [transports EXCEPT ![randomUUID] = NewTransport]
    /\ server' = Connect(server, NewTransport)
    /\ lastReq' = [NoRequest EXCEPT !.outcome = "sse", !.method = "GET",
                                    !.created = NewTransport,
                                    !.mapChanged = TRUE]
    /\ UNCHANGED <<sd, tools>>
    /\ UNCHANGED authVars
    /\ UNCHANGED handlerVars

\* the close event of the response stream of transport t
SseClose(t) ==
    /\ tr[t].state = "open"
    /\ tr' = [tr EXCEPT ![t].state = "closed",
                        ![t].steps = Append(@, "close")]
    /\ transports' = SseOnclose(transports, t)
    /\ server' = Disconnect(server, t)
    /\ UNCHANGED <<lastReq, sd, tools>>
    /\ UNCHANGED authVars
    /\ UNCHANGED handlerVars

\* app.post("/inventory") and app.post("/jokes"): the lookup in the plain
\* object, then transport.handlePostMessage or the 400 answer. The handler
\* has no try block: a TypeError for a value that is no transport, and an
\* exception of handlePostMessage, leave it as a rejected promise and no
\* answer is written.
SsePost(sessionId, ho) ==
    LET found == Lookup(transports, sessionId)
        req == [NoRequest EXCEPT !.outcome = "sse", !.method = "POST",
                                 !.sessionId = sessionId,
                                 !.inMapBefore = InMap(transports, sessionId),
                                 !.ownerBefore = OwnerState(sessionId)]
    IN
    /\ lastReq' =
          IF Truthy(found)
          THEN IF found.kind = "transport"
               THEN [req EXCEPT !.handedTo = found.t,
                                !.threw = (ho # "returns"),
                                !.headersSent = (ho # "throws")]
               ELSE [req EXCEPT !.threw = TRUE]
          ELSE [req EXCEPT !.reply = SseBadRequest]
    /\ UNCHANGED <<transports, tr, server, sd, tools>>
    /\ UNCHANGED authVars
    /\ UNCHANGED handlerVars

NextSse ==
    \/ SseGet
    \/ \E t \in Transports : SseClose(t)
    \/ \E s \in SessionIdQueries, ho \in HandleOutcomes : SsePost(s, ho)

SpecSse == Init /\ [][NextSse]_vars

TypeOK ==
    /\ transports \in [Uuids -> 0..MaxTransports]
    /\ \A t \in Transports :
          tr[t].state \in {"unborn", "connecting", "open", "failed", "closed"}
    /\ sd.pc \in {"idle", "looping", "exited"}

(* ----------------------- session manager: claims --------------------- *)

Handled == lastReq.outcome # "none"

\* position of the first occurrence of x in sequence s, 0 when absent
Pos(s, x) ==
    IF \E i \in 1..Len(s) : s[i] = x
    THEN CHOOSE i \in 1..Len(s) : s[i] = x /\ \A j \in 1..(i - 1) : s[j] # x
    ELSE 0

IsOpen(t) == tr[t].state = "open"

\* C1: a request that carries the id of a session whose transport has not
\* closed is handed to the transport that was created for that session, and
\* to no other, with the method and body it came with.
C1_RoutedToOwnTransport ==
    (Handled /\ lastReq.ownerBefore = "open") =>
        /\ lastReq.outcome = "routed"
        /\ OwnersOf(lastReq.sessionId.n) = {lastReq.handedTo}
        /\ lastReq.handedMsg =
              [method |-> lastReq.method, isInit |-> lastReq.isInit]

\* C1 witness: a follow-up that is itself an initialize body is routed to the
\* second transport while the first session is open as well
C1_Witness ==
    /\ lastReq.outcome = "routed"
    /\ lastReq.ownerBefore = "open"
    /\ lastReq.handedTo = 2
    /\ lastReq.isInit
    /\ IsOpen(1)

\* C2 (as claimed): a request whose session id is present but not in the
\* session map, or missing while the request is not a POST with an initialize
\* body, is answered 400 / -32000, creates no transport, leaves the session
\* map as it was and reaches no transport.
C2_UnknownOrMissingIsBadRequest ==
    (/\ Handled
     /\ \/ Present(lastReq.sessionId) /\ ~lastReq.inMapBefore
        \/ /\ ~Present(lastReq.sessionId)
           /\ ~(lastReq.method = "POST" /\ lastReq.isInit)) =>
        /\ lastReq.reply = BadRequest
        /\ lastReq.created = 0
        /\ lastReq.handedTo = 0
        /\ ~lastReq.mapChanged

\* C3: once a session's transport has closed its id is no key of the session
\* map, a request carrying that id is rejected with the bad-request error and
\* reaches no transport, and a closed transport stays closed.
C3_ClosedSessionIsUnknown ==
    /\ \A t \in Transports :
          (tr[t].state = "closed" /\ tr[t].sessionId # 0) =>
              transports[tr[t].sessionId] = 0
    /\ \A t \in Transports :
          Pos(tr[t].steps, "close") # 0 => tr[t].state = "closed"
    /\ (Handled /\ lastReq.ownerBefore = "closed") =>
          /\ lastReq.outcome = "rejected"
          /\ lastReq.reply = BadRequest
          /\ lastReq.handedTo = 0
          /\ ~lastReq.mapChanged

\* C3 witness: a request bearing the id of a closed session was rejected
C3_Witness ==
    /\ lastReq.ownerBefore = "closed"
    /\ lastReq.outcome = "rejected"
    /\ \E t \in Transports : tr[t].state = "closed"

\* C4: no two open transports carry the same session id, and a transport is
\* open exactly when the session map holds it under its own id.
C4_OneSessionPerId ==
    /\ \A t1, t2 \in Transports :
          (IsOpen(t1) /\ IsOpen(t2) /\ tr[t1].sessionId = tr[t2].sessionId)
              => t1 = t2
    /\ \A t \in Transports :
          IsOpen(t) <=> (tr[t].sessionId # 0
                         /\ transports[tr[t].sessionId] = t)
    /\ \A k \in Uuids :
          transports[k] # 0 => tr[transports[k]].sessionId = k

\* C4 witness: two sessions are open at once
C4_Witness ==
    /\ IsOpen(1)
    /\ IsOpen(2)
    /\ transports[tr[1].sessionId] = 1
    /\ transports[tr[2].sessionId] = 2

\* C5 (as claimed): the transport is registered in the session map before the
\* close handler is attached, so a transport with a close handler is one that
\* has been registered.
C5_RegisteredBeforeCloseHandler ==
    \A t \in Transports :
        tr[t].onclose =>
            /\ Pos(tr[t].steps, "register") # 0
            /\ Pos(tr[t].steps, "register") < Pos(tr[t].steps, "onclose")

\* C5 (amended): the transport is constructed without an id, the close
\* handler is attached and the server connected; only while the request is
\* being handled is the id generated and the transport registered, and the
\* message is dispatched after that, with the session in the map.
C5_InitializeOrder ==
    \A t \in Transports :
        LET s == tr[t].steps IN
        /\ tr[t].state # "unborn" =>
              /\ Pos(s, "new") = 1
              /\ Pos(s, "onclose") = 2
              /\ Pos(s, "connect") = 3
        /\ tr[t].state = "connecting" =>
              /\ tr[t].sessionId = 0
              /\ \A k \in Uuids : transports[k] # t
        /\ (\E k \in Uuids : transports[k] = t) =>
              /\ tr[t].onclose
              /\ Pos(s, "register") # 0
        /\ Pos(s, "register") # 0 =>
              /\ Pos(s, "connect") < Pos(s, "handleRequest")
              /\ Pos(s, "handleRequest") < Pos(s, "sessionId")
              /\ Pos(s, "sessionId") < Pos(s, "register")
        /\ Pos(s, "onmessage") # 0 =>
              /\ Pos(s, "register") # 0
              /\ Pos(s, "register") < Pos(s, "onmessage")

\* C5 witness: an initialize request has been handled to the end and its
\* session is in the map
C5_Witness ==
    /\ lastReq.outcome = "initialized"
    /\ IsOpen(lastReq.handedTo)
    /\ transports[tr[lastReq.handedTo].sessionId] = lastReq.handedTo
    /\ Pos(tr[lastReq.handedTo].steps, "onmessage") # 0

\* C6 (as claimed): when the process has exited after SIGINT no transport is
\* left open.
C6_NoOpenTransportAtExit ==
    sd.pc = "exited" => \A t \in Transports : ~IsOpen(t)

\* C18 (as claimed): the routing decision and the insertion of a new session
\* are one synchronous step, so at no suspension point is there a transport
\* that a request has decided to create and that is not in the session map.
C18_DecidedMeansRegistered ==
    /\ \A t \in Transports :
          tr[t].state = "connecting" => \E k \in Uuids : transports[k] = t
    /\ lastReq.outcome = "connecting" => lastReq.mapChanged

\* a transport that is constructed and awaits server.connect has no id and
\* is in no entry of the session map, and a request is only ever routed to
\* a transport that has been registered
UnregisteredIsUnreachable ==
    /\ \A t \in Transports :
          tr[t].state = "connecting" =>
              /\ tr[t].sessionId = 0
              /\ \A k \in Uuids : transports[k] # t
    /\ lastReq.outcome = "routed" =>
          /\ Pos(tr[lastReq.handedTo].steps, "register") # 0
          /\ tr[lastReq.handedTo].sessionId = lastReq.sessionId.n

\* a step changes an entry of the session map only by registering, under a
\* free id, a transport that awaited server.connect, or by deleting the
\* entry of a transport that closes; the step that decides to create a
\* transport leaves the map as it is
MapStep ==
    /\ \A k \in Uuids :
          transports'[k] # transports[k] =>
              \/ /\ transports[k] = 0
                 /\ tr[transports'[k]].state = "connecting"
                 /\ tr'[transports'[k]].state = "open"
                 /\ tr'[transports'[k]].sessionId = k
              \/ /\ transports'[k] = 0
                 /\ tr[transports[k]].state = "open"
                 /\ tr'[transports[k]].state = "closed"
    /\ \A t \in Transports :
          (tr[t].state = "unborn" /\ tr'[t].state = "connecting") =>
              transports' = transports

\* C18 (amended): the session map is changed only when a session is
\* registered and when a transport closes; the lookup and the routing
\* decision of a request are one synchronous step, but the insertion of a
\* new session is a later step, taken after the await of server.connect;
\* in between the new transport has no id and no map entry, so no request
\* can be routed to it.
C18_MapChangesAtRegisterAndClose ==
    []UnregisteredIsUnreachable /\ [][MapStep]_vars

\* C18 witness: a request was routed to the open session 1 while the
\* transport of a second initialize request awaited server.connect
C18_Witness ==
    /\ lastReq.outcome = "routed"
    /\ lastReq.handedTo = 1
    /\ IsOpen(1)
    /\ tr[2].state = "connecting"
    /\ \A k \in Uuids : transports[k] # 2

(* -------------------------- token cache: claims ----------------------- *)

\* validity a cache entry has left at time t, in ticks
ValidityLeft(entry, t) == entry.expiresAt * TicksPerSecond - t

Margin == SafetyMargin * TicksPerSecond

HasReturned == lastCall.id # 0

InFlight(c) == calls[c].pc \in {"hop1", "hop2"}

\* C7 (as claimed): every token returned, from the cache or fresh from hop 2,
\* has an expiresAt at least 60 seconds after the time of the return.
C7_ReturnedTokenHasMargin ==
    (HasReturned /\ lastCall.result.kind = "token") =>
        lastCall.result.expiresAt * TicksPerSecond - lastCall.result.at
            >= Margin

\* C7 (amended): a token served from the cache has an expiresAt more than 60
\* seconds after the time of the return; a token fresh from hop 2 is returned
\* with the validity hop 2 granted, expiresAt = floor(now) + expires_in, the
\* + being that of JavaScript: the sum for a number, the concatenation of the
\* digits for a string.
C7_CachedTokenHasMargin ==
    (HasReturned /\ lastCall.result.kind = "token") =>
        /\ lastCall.result.source \in {"cache", "fresh"}
        /\ lastCall.result.source = "cache" =>
              lastCall.result.expiresAt * TicksPerSecond - lastCall.result.at
                  > Margin
        /\ lastCall.result.source = "fresh" =>
              \E e \in ExpiresInValues \ {0} :
                  lastCall.result.expiresAt
                      = IF lastCall.cacheAtReturn.expiresAtType = "number"
                        THEN (lastCall.result.at \div TicksPerSecond) + e
                        ELSE Shift(lastCall.result.at \div TicksPerSecond, e)
                                 + e

\* C7 witness: a token stored earlier is served from the cache after the
\* clock has advanced
C7_Witness ==
    /\ lastCall.result.kind = "token"
    /\ lastCall.result.source = "cache"
    /\ lastCall.result.at > 0

\* C8: a call that starts with a cached token whose expiresAt is more than 60
\* seconds ahead returns exactly that token, sends no outbound request and
\* leaves the cache as it was.
C8_CacheHit ==
    /\ \A c \in Calls :
          InFlight(c) =>
              ~(/\ calls[c].cacheAtStart # Null
                /\ ValidityLeft(calls[c].cacheAtStart, calls[c].startedAt)
                      > Margin)
    /\ (/\ HasReturned
        /\ lastCall.cacheAtStart # Null
        /\ ValidityLeft(lastCall.cacheAtStart, lastCall.startedAt) > Margin)
          =>
          /\ lastCall.result.kind = "token"
          /\ lastCall.result.token = lastCall.cacheAtStart.token
          /\ lastCall.log = <<>>
          /\ lastCall.cacheAtReturn = lastCall.cacheAtStart

\* C8 witness: the second call is a cache hit on the first call's token
C8_Witness ==
    /\ lastCall.id = 2
    /\ lastCall.cacheAtStart # Null
    /\ ValidityLeft(lastCall.cacheAtStart, lastCall.startedAt) > Margin
    /\ lastCall.result.token = 1
    /\ lastCall.log = <<>>

\* C9 (as claimed): a call that starts with a cached token that is valid for
\* at least 60 more seconds, exactly 60 included, returns it at once and sends
\* no outbound request.
C9_HitAtBoundary ==
    /\ \A c \in Calls :
          InFlight(c) =>
              ~(/\ calls[c].cacheAtStart # Null
                /\ ValidityLeft(calls[c].cacheAtStart, calls[c].startedAt)
                      >= Margin)
    /\ (/\ HasReturned
        /\ lastCall.cacheAtStart # Null
        /\ ValidityLeft(lastCall.cacheAtStart, lastCall.startedAt) >= Margin)
          =>
          /\ lastCall.result.kind = "token"
          /\ lastCall.result.token = lastCall.cacheAtStart.token
          /\ lastCall.log = <<>>

\* the call that returned last started with a cached token that expired
\* within 60 seconds
StartedExpiring ==
    /\ HasReturned
    /\ lastCall.cacheAtStart # Null
    /\ ValidityLeft(lastCall.cacheAtStart, lastCall.startedAt) <= Margin

\* C10 (as claimed): a call that starts with a cached token expiring within
\* 60 seconds does not return it, performs hop 1 and then hop 2, and replaces
\* the cache entry with the new token.
C10_ExpiringIsRefreshed ==
    StartedExpiring =>
        /\ lastCall.result.token # lastCall.cacheAtStart.token
        /\ lastCall.log = <<"hop1", "hop2", "store">>
        /\ lastCall.cacheAtReturn.token = lastCall.result.token
        /\ lastCall.cacheAtReturn # lastCall.cacheAtStart

\* C10 (amended): a call that starts with a cached token expiring within 60
\* seconds never returns it; with credentials configured it sends hop 1, it
\* sends hop 2 only after hop 1, and when both hops succeed it replaces the
\* cache entry with the new token and returns that token; a failed call
\* stores nothing.
C10_ExpiringIsNotServed ==
    StartedExpiring =>
        /\ lastCall.result.source # "cache"
        /\ lastCall.result.token # lastCall.cacheAtStart.token
        /\ config.credentials => (lastCall.log # <<>> /\ lastCall.log[1] = "hop1")
        /\ lastCall.log \in {<<>>, <<"hop1">>, <<"hop1", "hop2">>,
                             <<"hop1", "hop2", "store">>}
        /\ lastCall.result.kind = "token" <=>
              lastCall.log = <<"hop1", "hop2", "store">>
        /\ lastCall.result.kind = "token" =>
              /\ lastCall.cacheAtReturn.token = lastCall.result.token
              /\ lastCall.cacheAtReturn.expiresAt = lastCall.result.expiresAt
              /\ lastCall.cacheAtReturn # lastCall.cacheAtStart
              /\ lastCall.cacheAtReturn # Null

\* C10 witness: a call that found an expiring token has refreshed it
C10_Witness ==
    /\ StartedExpiring
    /\ lastCall.result.kind = "token"
    /\ lastCall.log = <<"hop1", "hop2", "store">>
    /\ cachedDynamicsToken.token = lastCall.id

(* ------------------ two-hop authentication: claims ------------------- *)

\* the call that returned last got a hop 1 body without access_token
Hop1NoToken == HasReturned /\ lastCall.aad = "noToken"

\* the call that returned last got a hop 2 body without access_token or
\* without expires_in
Hop2NoToken ==
    /\ HasReturned
    /\ lastCall.dynamicsData.kind = "json"
    /\ ~lastCall.dynamicsData.access_token \/ lastCall.dynamicsData.expires_in = 0

\* the call that returned last ran into a network or parse exception
Threw ==
    /\ HasReturned
    /\ lastCall.aad = "exception" \/ lastCall.dynamicsData.kind = "exception"

\* the outbound requests of a log
Requests(log) == SelectSeq(log, LAMBDA x : x # "store")

\* C11: when the hop 1 response has no access_token, hop 2 is never sent,
\* the call returns the identity-provider failure carrying the raw response,
\* and the call leaves the cache exactly as it was.
C11_Hop1WithoutToken ==
    /\ \A c \in Calls : calls[c].pc = "hop2" => calls[c].aad = "token"
    /\ Hop1NoToken =>
          /\ lastCall.log = <<"hop1">>
          /\ lastCall.dynamicsData = NoResponse
          /\ lastCall.result.kind = "error"
          /\ lastCall.result.error = "aad"
          /\ lastCall.result.details = "aadData"
          /\ lastCall.cacheAtReturn = lastCall.cacheBeforeReturn
          /\ cachedDynamicsToken = lastCall.cacheAtReturn

\* C11 witness: hop 1 answered without a token while the cache held an
\* expiring token, and that token is still cached
C11_Witness ==
    /\ Hop1NoToken
    /\ lastCall.cacheAtStart # Null
    /\ cachedDynamicsToken = lastCall.cacheAtStart

\* C12: when hop 1 returns a token and hop 2 returns an access_token with a
\* numeric expires_in n, the call returns that token and the cache holds it
\* with expiresAt = Math.floor(current time in seconds) + n.
C12_FreshTokenStored ==
    (/\ HasReturned
     /\ lastCall.aad = "token"
     /\ lastCall.dynamicsData.kind = "json"
     /\ lastCall.dynamicsData.access_token
     /\ lastCall.dynamicsData.expires_in # 0
     /\ lastCall.dynamicsData.expires_in_type = "number") =>
        /\ lastCall.result.kind = "token"
        /\ lastCall.result.token = lastCall.id
        /\ lastCall.cacheAtReturn.token = lastCall.id
        /\ lastCall.cacheAtReturn.expiresAt =
              (lastCall.result.at \div TicksPerSecond)
                  + lastCall.dynamicsData.expires_in
        /\ lastCall.cacheAtReturn.expiresAtType = "number"
        /\ lastCall.result.expiresAt = lastCall.cacheAtReturn.expiresAt
        /\ cachedDynamicsToken = lastCall.cacheAtReturn

\* C12 witness: a token with expires_in 120 was stored half-way through a
\* second
C12_Witness ==
    /\ lastCall.result.source = "fresh"
    /\ lastCall.dynamicsData.expires_in = 120
    /\ lastCall.dynamicsData.expires_in_type = "number"
    /\ lastCall.result.at % TicksPerSecond # 0
    /\ cachedDynamicsToken.expiresAt = (now \div TicksPerSecond) + 120

\* C13 (as claimed): the cache is absent, or it is a complete entry: the
\* token of a call together with a numeric expiresAt, the time of a response
\* plus its expires_in.
C13_CacheAbsentOrComplete ==
    \/ cachedDynamicsToken = Null
    \/ /\ cachedDynamicsToken.token \in Calls
       /\ cachedDynamicsToken.expiresAtType = "number"
       /\ \E t \in 0..now, e \in ExpiresInValues \ {0} :
             cachedDynamicsToken.expiresAt = ExpiresAt(t, e)

\* C14 (as claimed): a call in which a hop fails, by a response without
\* token or by an exception, leaves the cache as it was.
C14_FailedCallKeepsCache ==
    (Hop1NoToken \/ Hop2NoToken \/ Threw) =>
        lastCall.cacheAtReturn = lastCall.cacheBeforeReturn

\* C14 (amended): a call in which a hop answers without a token returns an
\* error and leaves the cache as it was; a call that runs into an exception
\* leaves the cache as it was only when the cache was absent already.
C14_NoTokenKeepsCache ==
    /\ (Hop1NoToken \/ Hop2NoToken) =>
          /\ lastCall.result.kind = "error"
          /\ lastCall.cacheAtReturn = lastCall.cacheBeforeReturn
          /\ cachedDynamicsToken = lastCall.cacheBeforeReturn
    /\ Threw =>
          /\ lastCall.result.kind = "error"
          /\ (lastCall.cacheAtReturn = lastCall.cacheBeforeReturn)
                <=> (lastCall.cacheBeforeReturn = Null)

\* C14 witness: hop 2 answered without a token while another call's token
\* was cached, and that token is still cached
C14_Witness ==
    /\ Hop2NoToken
    /\ lastCall.cacheBeforeReturn # Null
    /\ cachedDynamicsToken = lastCall.cacheBeforeReturn

\* C15 (as claimed): after a call that ends in an authentication failure,
\* by a response without token or by an exception, the cache is absent.
C15_FailureClearsCache ==
    (Hop1NoToken \/ Hop2NoToken \/ Threw) => lastCall.cacheAtReturn = Null

\* C15 (amended): after a call that ends in an exception the cache is
\* absent; after a call that ends because a hop answered without a token the
\* cache is absent only when it was absent before.
C15_ExceptionClearsCache ==
    /\ Threw =>
          /\ lastCall.result.error = "exception"
          /\ lastCall.cacheAtReturn = Null
          /\ cachedDynamicsToken = Null
    /\ (Hop1NoToken \/ Hop2NoToken) =>
          /\ lastCall.result.error \in {"aad", "dynamics"}
          /\ (lastCall.cacheAtReturn = Null)
                <=> (lastCall.cacheBeforeReturn = Null)

\* C15 witness: an exception cleared a cache that held a token
C15_Witness ==
    /\ Threw
    /\ lastCall.cacheBeforeReturn # Null
    /\ cachedDynamicsToken = Null

\* C16: a call sends no request on a cache hit and otherwise at most one
\* hop 1 request and at most one hop 2 request, the hop 2 request only after
\* a hop 1 response with a token; no request is repeated.
C16_AtMostTwoRequests ==
    /\ \A c \in Calls :
          /\ calls[c].pc = "hop1" => calls[c].log = <<"hop1">>
          /\ calls[c].pc = "hop2" =>
                /\ calls[c].log = <<"hop1", "hop2">>
                /\ calls[c].aad = "token"
    /\ HasReturned =>
          /\ Requests(lastCall.log)
                \in {<<>>, <<"hop1">>, <<"hop1", "hop2">>}
          /\ (/\ lastCall.cacheAtStart # Null
              /\ ValidityLeft(lastCall.cacheAtStart, lastCall.startedAt)
                    > Margin) => lastCall.log = <<>>
          /\ Len(Requests(lastCall.log)) = 2 => lastCall.aad = "token"
          /\ lastCall.aad # "none" => Len(lastCall.log) >= 1
          /\ lastCall.dynamicsData # NoResponse =>
                Len(Requests(lastCall.log)) = 2

\* C16 witness: a call whose hop 2 failed has returned after two requests
C16_Witness ==
    /\ lastCall.result.kind = "error"
    /\ lastCall.log = <<"hop1", "hop2">>
    /\ lastCall.dynamicsData.kind = "exception"

\* the call that returned last stored its token over a token that another
\* call stored while this one was in flight
Overtaken ==
    /\ HasReturned
    /\ lastCall.dynamicsData.kind = "json"
    /\ lastCall.dynamicsData.access_token
    /\ lastCall.dynamicsData.expires_in # 0
    /\ lastCall.cacheBeforeReturn # Null
    /\ lastCall.cacheBeforeReturn.token # lastCall.cacheAtStart.token

\* C17: of two calls that both start on a cache miss and interleave, each
\* performs the full two-hop exchange, and once both have completed
\* successfully the cache holds the token of the call whose hop 2 completed
\* later.
C17_LastWriterWins ==
    /\ HasReturned => cachedDynamicsToken = lastCall.cacheAtReturn
    /\ (HasReturned /\ lastCall.result.source = "fresh") =>
          /\ lastCall.log = <<"hop1", "hop2", "store">>
          /\ lastCall.cacheAtReturn.token = lastCall.id
    /\ Overtaken =>
          /\ lastCall.result.source = "fresh"
          /\ lastCall.cacheAtReturn.token = lastCall.id
          /\ lastCall.cacheAtReturn.token # lastCall.cacheBeforeReturn.token
          /\ cachedDynamicsToken.token = lastCall.id

\* C17 witness: call 1 started first on an empty cache, call 2 stored its
\* token first, and call 1's token replaced it
C17_Witness ==
    /\ Overtaken
    /\ lastCall.id = 1
    /\ lastCall.cacheAtStart = Null
    /\ lastCall.cacheBeforeReturn.token = 2
    /\ cachedDynamicsToken.token = 1

(* ---------------------- query-inventory: claims ---------------------- *)

\* C19 (as claimed): the result of a tool call that arrived on a session is
\* sent through the transport of that session and through no other, whatever
\* sessions have connected or closed since that session was opened.
C19_ResultThroughOwnTransport ==
    \A c \in ToolCalls :
        tools[c].pc = "done" => tools[c].sentVia = tools[c].arrivedOn

\* a call whose session was closed while it was awaiting hop 1, hop 2 or the
\* inventory service
ClosedInFlight(c) == tools[c].closedAt \in {"hop1", "hop2", "inventory"}

\* C20: the close of a session's transport while a tool call that arrived on
\* it awaits hop 1, hop 2 or the inventory service does not cancel the call:
\* the call goes on from where it was, a successful authentication stores
\* its token in the cache, the handler settles with its result, and the id
\* of the closed session stays out of the session map.
C20_CloseDoesNotCancel ==
    \A c \in ToolCalls :
        ClosedInFlight(c) =>
            LET t == tools[c].arrivedOn IN
            /\ tr[t].state = "closed"
            /\ transports[tr[t].sessionId] = 0
            /\ \A k \in Uuids : transports[k] # t
            /\ tools[c].pc \in {"auth", "inventory", "done"}
            /\ tools[c].pc = "auth" => calls[c].pc \in {"hop1", "hop2"}
            /\ tools[c].pc \in {"inventory", "done"} => calls[c].pc = "done"
            /\ (/\ tools[c].closedAt \in {"hop1", "hop2"}
                /\ lastCall.id = c
                /\ lastCall.result.kind = "token") =>
                  /\ lastCall.result.source = "fresh"
                  /\ cachedDynamicsToken.token = c
                  /\ cachedDynamicsToken = lastCall.cacheAtReturn
                  /\ tools[c].pc \in {"inventory", "done"}
            /\ tools[c].pc = "done" => tools[c].result # "none"

\* C20 witness: the session was closed while its call awaited hop 1; the call
\* has stored its token, queried the inventory and settled with the data
C20_Witness ==
    \E c \in ToolCalls :
        /\ tools[c].closedAt = "hop1"
        /\ tools[c].pc = "done"
        /\ tools[c].result = "data"
        /\ cachedDynamicsToken.token = c
        /\ transports[tr[tools[c].arrivedOn].sessionId] = 0

(* ------------------------- tool results: claims ----------------------- *)

\* the query-inventory calls that have got the inventory endpoint's answer
\* and have returned, on whichever server: the answer and the result
Answered ==
    {[server |-> "part_001", answer |-> tools[c].answer, out |-> tools[c].out] :
        c \in {d \in ToolCalls : /\ tools[d].pc = "done"
                                 /\ tools[d].answer.kind # "none"}}
    \cup {[server |-> h.server, answer |-> h.answer, out |-> h.out] :
             x \in {y \in {h.tool} : /\ y = "query-inventory"
                                     /\ h.pc = "done"
                                     /\ h.answer.kind # "none"}}

\* C21: every answer of the inventory endpoint with a status outside
\* 200..299, whatever its body, gives the upstream-rejected error result with
\* the status and the body; the transport-failure result comes only from a
\* network or parse failure
C21_NonOkIsUpstreamRejected ==
    \A q \in Answered :
        /\ q.answer.kind = "http" /\ ~ResponseOk(q.answer.status)
              => /\ q.out.kind = "upstreamRejected"
                 /\ q.out.status = q.answer.status
                 /\ q.out.details \in {q.answer.body,
                                       Restringify(q.answer.body)}
        /\ q.out.kind = "queryFailed"
              => q.answer.kind = "failure" \/ q.answer.body = NotJson

\* C22 as stated: a success status with payload P gives P, unmodified, as a
\* non-error result
C22_SuccessReturnsBody ==
    \A q \in Answered :
        q.answer.kind = "http" /\ ResponseOk(q.answer.status)
            => /\ q.out.kind = "data"
               /\ ~q.out.isError
               /\ q.out.data = q.answer.body

\* C22: a success status with a body that parses gives the parsed value,
\* serialized again, as a non-error result: the same value, except for a
\* number that a double does not hold; a body that does not parse gives the
\* transport-failure result
C22_SuccessReturnsParsedValue ==
    \A q \in Answered :
        q.answer.kind = "http" /\ ResponseOk(q.answer.status)
            => IF q.answer.body = NotJson
               THEN q.out.kind = "queryFailed"
               ELSE /\ q.out.kind = "data"
                    /\ ~q.out.isError
                    /\ IF q.answer.body = "9007199254740993"
                       THEN q.out.data = "9007199254740992"
                       ELSE ValueOf(q.out.data) = ValueOf(q.answer.body)

C22_Witness ==
    \E q \in Answered :
        /\ q.server = "index_mcp"
        /\ q.answer.kind = "http" /\ ResponseOk(q.answer.status)
        /\ q.answer.body = "5.0"
        /\ q.out.kind = "data" /\ q.out.data = "5"

\* the results that report a failure
FailureKinds ==
    {"missingInput", "aadFailed", "dynamicsFailed", "authFailed", "authError",
     "fnoMissing", "upstreamRejected", "queryFailed"}

\* the results of the tool calls that have returned, on whichever server
Results ==
    {tools[c].out : c \in {d \in ToolCalls : tools[d].pc = "done"}}
    \cup {h.out : x \in {y \in {h.pc} : y = "done"}}

\* C23: every failure outcome of an authentication or inventory tool call is
\* a result with the error flag set and with a details payload
C23_FailuresAreFlagged ==
    \A res \in Results :
        res.kind \in FailureKinds => res.isError /\ res.details # "none"

\* C24: a hop 2 response without access_token ends the authentication in the
\* downstream-token failure with the raw response; success is not reported,
\* no absent token is handed out or cached
C24_Hop2WithoutTokenFails ==
    /\ HasReturned /\ lastCall.dynamicsData.kind = "json"
                   /\ ~lastCall.dynamicsData.access_token
          => /\ lastCall.result.kind = "error"
             /\ lastCall.result.error = "dynamics"
             /\ lastCall.result.details = "dynamicsData"
             /\ lastCall.cacheAtReturn = lastCall.cacheBeforeReturn
    /\ h.pc = "done" /\ h.dynamics = "noToken"
          => /\ h.out.kind = "dynamicsFailed"
             /\ h.out.details = "dynamicsData"

HandlerStarts(c) == tools[c].pc = "none" /\ tools'[c].pc # "none"

\* a step in which the handler of call c, having awaited the inventory
\* endpoint, returns
HandlerReturnsFromInventory(c) ==
    tools[c].pc = "inventory" /\ tools'[c].pc = "done"

\* the steps of query-inventory outside getDynamicsAccessToken leave the
\* session map and the token cache as they are
InventoryStep ==
    \A c \in ToolCalls :
        /\ HandlerStarts(c) => transports' = transports
        /\ HandlerReturnsFromInventory(c)
              => /\ transports' = transports
                 /\ cachedDynamicsToken' = cachedDynamicsToken

\* C27: the query-inventory handler never changes the session map, and it
\* changes the token cache only in getDynamicsAccessToken: an upstream
\* rejection or a transport failure of the inventory call leaves it unchanged
C27_InventoryLeavesCacheAndMap == [][InventoryStep]_vars

\* C27 witness: the inventory endpoint rejected a call with 403 and the token
\* the call obtained is still cached
C27_Witness ==
    \E c \in ToolCalls :
        /\ tools[c].pc = "done"
        /\ tools[c].answer.status = 403
        /\ tools[c].out.kind = "upstreamRejected"
        /\ cachedDynamicsToken # Null

(* ------------------- token cache: failures and races ------------------ *)

\* C29: whenever getDynamicsAccessToken ends in an exception, the cache is
\* absent afterwards, whatever it held, a token stored meanwhile by another
\* call included
C29_ExceptionEmptiesCache ==
    Threw => /\ lastCall.result.kind = "error"
             /\ lastCall.log # <<>>
             /\ lastCall.cacheAtReturn = Null

\* C29 witness: the call started with an empty cache, another call stored
\* its token meanwhile, and the exception removed that token
C29_Witness ==
    /\ Threw
    /\ lastCall.cacheAtStart = Null
    /\ lastCall.cacheBeforeReturn # Null
    /\ lastCall.cacheBeforeReturn.token # lastCall.id
    /\ cachedDynamicsToken = Null

\* C30: a token stored with more than 60 seconds of validity is not removed
\* while that validity lasts by a call that was in flight and then fails
C30_FailingCallKeepsValidToken ==
    /\ HasReturned
    /\ lastCall.result.kind = "error"
    /\ CacheValid(lastCall.cacheBeforeReturn, lastCall.result.at)
    => lastCall.cacheAtReturn = lastCall.cacheBeforeReturn

(* ------------------- session manager: failed requests ----------------- *)

\* C26: an exception raised while a request on /mcp is handled, in
\* server.connect or in transport.handleRequest, reaches the catch block and
\* is answered with 500 and code -32603 when no response has been started;
\* no request gets a response from the handler on top of one the transport
\* has started
C26_ExceptionIsAnsweredOnce ==
    /\ lastReq.threw =>
          /\ ~lastReq.headersSent =>
                /\ lastReq.reply.status = 500
                /\ lastReq.reply.code = -32603
          /\ lastReq.headersSent => lastReq.reply = NoReply
    /\ ~(lastReq.headersSent /\ lastReq.reply # NoReply)
    /\ lastReq.reply = InternalError => lastReq.threw

\* C26 witness: transport.handleRequest threw on a routed request before
\* anything was written, and the handler answered 500
C26_Witness ==
    /\ lastReq.outcome = "routed"
    /\ lastReq.threw
    /\ ~lastReq.headersSent
    /\ lastReq.reply = InternalError

\* C28: whenever the handling of an initialize request ends with the
\* internal-error response, the session map has no entry for the transport
\* that the request created
C28_NoHalfInitializedSession ==
    (lastReq.created # 0 /\ lastReq.reply = InternalError)
        => \A k \in Uuids : transports[k] # lastReq.created

(* ------------------------ token cache: expires_in --------------------- *)

\* the call that returned last got a hop 2 body with an access_token and
\* with expires_in missing or 0
Hop2NoExpiry ==
    /\ HasReturned
    /\ lastCall.dynamicsData.kind = "json"
    /\ lastCall.dynamicsData.access_token
    /\ lastCall.dynamicsData.expires_in = 0

\* C33: a hop 2 response whose expires_in is missing or zero is a
\* downstream-token failure even when it carries an access_token: the call
\* returns the error, no token, and the cache is as it was
C33_NoExpiryIsFailure ==
    Hop2NoExpiry =>
        /\ lastCall.result.kind = "error"
        /\ lastCall.result.error = "dynamics"
        /\ lastCall.result.token = 0
        /\ lastCall.log = <<"hop1", "hop2">>
        /\ lastCall.cacheAtReturn = lastCall.cacheBeforeReturn

\* C33 witness: such a response arrived while another call's token was
\* cached, and that token is still there
C33_Witness ==
    /\ Hop2NoExpiry
    /\ lastCall.cacheBeforeReturn # Null
    /\ cachedDynamicsToken = lastCall.cacheBeforeReturn

(* -------------------- session manager: map entries -------------------- *)

\* every entry of the session map holds, under key k, a transport that an
\* initialize request constructed, whose session id is k and which has not
\* closed
EntriesConsistent ==
    \A k \in Uuids :
        transports[k] # 0 =>
            LET t == transports[k] IN
            /\ tr[t].sessionId = k
            /\ Pos(tr[t].steps, "new") = 1
            /\ Pos(tr[t].steps, "close") = 0
            /\ tr[t].state = "open"

\* an entry appears only in the step in which the transport's
\* onsessioninitialized callback runs, and disappears only in the step in
\* which its transport, with the close handler attached, closes; an entry is
\* never overwritten
EntryStep ==
    \A k \in Uuids :
        /\ (transports[k] = 0 /\ transports'[k] # 0) =>
              /\ Pos(tr[transports'[k]].steps, "register") = 0
              /\ Pos(tr'[transports'[k]].steps, "register") # 0
        /\ (transports[k] # 0 /\ transports'[k] = 0) =>
              /\ tr[transports[k]].onclose
              /\ Pos(tr[transports[k]].steps, "close") = 0
              /\ Pos(tr'[transports[k]].steps, "close") # 0
        /\ (transports[k] # 0 /\ transports'[k] # 0) =>
              transports'[k] = transports[k]

\* C34: in every reachable state each entry of the session map is
\* consistent, and entries are inserted only by the session-initialized
\* callback and removed only by the close handler
C34_EntriesConsistent == []EntriesConsistent /\ [][EntryStep]_vars

\* C34 witness: one session is in the map while the entry of another, which
\* has closed, is gone
C34_Witness ==
    /\ \E k \in Uuids : transports[k] # 0
    /\ \E t \in Transports :
          /\ tr[t].state = "closed"
          /\ tr[t].sessionId # 0
          /\ transports[tr[t].sessionId] = 0

(* -------------------- session manager: close handler ------------------ *)

\* a step in which transport t fires its close event
ClosesIn(t) == Closes(tr'[t].steps) > Closes(tr[t].steps)

\* the close handler of a transport without session id, or whose id is not a
\* key of the map, leaves the map as it is; a close removes no entry but the
\* one that holds the closing transport under its own id
OncloseStep ==
    \A t \in Transports :
        ClosesIn(t) =>
            /\ (tr[t].sessionId = 0 \/ transports[tr[t].sessionId] = 0)
                  => transports' = transports
            /\ \A k \in Uuids :
                  transports'[k] # transports[k] =>
                      /\ k = tr[t].sessionId
                      /\ transports[k] = t
                      /\ transports'[k] = 0

\* C35: the close handler is idempotent and local: run for a transport that
\* has no session id yet or whose id is no longer in the map, it leaves the
\* session map unchanged, and it never removes the entry of a different
\* session
C35_OncloseIdempotentAndLocal == [][OncloseStep]_vars

\* C35 witness: a transport with a session has fired its close event twice
\* and the entry of another session is still in the map
C35_Witness ==
    \E t \in Transports, k \in Uuids :
        /\ tr[t].sessionId # 0
        /\ Closes(tr[t].steps) = 2
        /\ transports[k] # 0
        /\ transports[k] # t
        /\ tr[transports[k]].state = "open"

(* ------------------------ SSE servers: claims ------------------------- *)

\* C36: in the SSE servers a session is in the session map exactly from the
\* handling of its GET /sse request until the close event of its response
\* stream, and a POST whose sessionId is not in the map gets HTTP 400, is
\* handed to no transport and leaves the map unchanged
C36_SseSessionsAndUnknownPosts ==
    /\ \A t \in Transports :
          tr[t].state = "open"
              <=> (tr[t].sessionId # 0 /\ transports[tr[t].sessionId] = t)
    /\ \A k \in Uuids :
          transports[k] # 0 => tr[transports[k]].sessionId = k
    /\ (lastReq.method = "POST" /\ ~lastReq.inMapBefore) =>
          /\ lastReq.reply.status = 400
          /\ lastReq.handedTo = 0
          /\ ~lastReq.mapChanged
          /\ ~lastReq.threw

(* -------------------- query-inventory: one request -------------------- *)

\* C31: query-inventory obtains a token first and sends at most one
\* inventory request: after an error of the acquisition that error is the
\* result and no inventory request was sent; otherwise the bearer token of
\* the one request is the token this call's own acquisition returned,
\* whatever the cache holds by then; no answer makes the call send again
C31_OnePostWithOwnToken ==
    \A c \in Calls :
        /\ Len(tools[c].posts) <= 1
        /\ tools[c].out.kind = "authError" =>
              /\ tools[c].posts = <<>>
              /\ tools[c].answer = NoAnswer
        /\ tools[c].posts # <<>> =>
              /\ tools[c].acquired \in Calls
              /\ tools[c].posts = <<tools[c].acquired>>
        /\ (tools[c].pc = "inventory" \/ tools[c].answer # NoAnswer) =>
              Len(tools[c].posts) = 1

\* C31 witness: a call sent its request with the token it had acquired, the
\* cache was replaced by another call's token meanwhile, the answer was a
\* transport failure and the call has returned without a second request
C31_Witness ==
    \E c \in Calls :
        /\ tools[c].pc = "done"
        /\ tools[c].answer.kind = "failure"
        /\ tools[c].posts = <<tools[c].acquired>>
        /\ cachedDynamicsToken # Null
        /\ cachedDynamicsToken.token # tools[c].acquired

(* ------------------ query-inventory: other sessions ------------------- *)

\* the handler of call c is suspended in an await: of hop 1, of hop 2 or of
\* the inventory answer
Suspended(c) ==
    /\ tools[c].pc \in {"auth", "inventory"}
    /\ Stage(c) \in {"hop1", "hop2", "inventory"}

\* the sessions in the map other than the one call c arrived on
OtherSessions(c) ==
    {k \in Uuids : transports[k] # 0 /\ transports[k] # tools[c].arrivedOn}

\* C32: while a tool call is suspended awaiting hop 1, hop 2 or the
\* inventory answer, which may never come, the server still handles the
\* requests of other sessions: a session can be created, and a request of
\* another session can be routed to its transport and can close it
C32_SuspendedCallBlocksNoSession ==
    \A c \in ToolCalls :
        Suspended(c) =>
            /\ NewTransport # 0 =>
                  ENABLED (/\ McpRequest("POST", NoSessionId, TRUE)
                           /\ lastReq'.created = NewTransport)
            /\ \A t \in Transports :
                  tr[t].state = "connecting" =>
                      ENABLED (/\ McpConnected(t, "ok")
                               /\ transports'[tr'[t].sessionId] = t)
            /\ \A k \in OtherSessions(c) :
                  /\ ENABLED (/\ McpRequest("POST",
                                            [kind |-> "uuid", n |-> k], FALSE)
                             /\ lastReq'.outcome = "routed"
                             /\ lastReq'.handedTo = transports[k])
                  /\ ENABLED (/\ McpRequest("DELETE",
                                            [kind |-> "uuid", n |-> k], FALSE)
                             /\ lastReq'.handedTo = transports[k]
                             /\ transports'[k] = 0)

\* C32 witness: a call arrived on one session and is still awaiting the
\* inventory answer; after it had arrived, another session was created and
\* then closed by its DELETE request
C32_Witness ==
    \E c \in ToolCalls, t \in Transports :
        /\ Suspended(c)
        /\ Stage(c) = "inventory"
        /\ t # tools[c].arrivedOn
        /\ t > tools[c].arrivedOn
        /\ tr[t].state = "closed"
        /\ lastReq.method = "DELETE"
        /\ lastReq.outcome = "routed"
        /\ lastReq.handedTo = t

=============================================================================
